---- MODULE Spec2Model ----
(***************************************************************************)
(* Model of src/app.py: the per-restaurant admission gate (ACTIVE,         *)
(* acquire_lock, release_lock, cleanup_expired) and the idempotent         *)
(* reservation upsert (RESERVATIONS, RES_INDEX, normalize_payload,         *)
(* validate_reservation, upsert_reservation, create_reservation).          *)
(***************************************************************************)
EXTENDS Integers, Sequences, FiniteSets, TLC

VARIABLES
    now,            \* the wall clock read by datetime.utcnow().timestamp()
    ACTIVE,         \* {rid: {call_sid: expires_epoch}}
    last,           \* the JSON response of the last gate request handled
    RESERVATIONS,   \* key: reservation_id
    RES_INDEX,      \* (restaurant_id, call_sid) -> reservation_id
    uuids,          \* the number of identifiers uuid4() has handed out
    resp,           \* the response of the last creation request handled
    firstId,        \* per dedup key, the record the first valid request got
    thr,            \* the request threads inside create_reservation
    heap,           \* the bucket dictionaries as objects: object id -> bucket
    ACTIVE_ref,     \* ACTIVE as the gate threads share it: rid -> object id
    gthr,           \* the request threads inside acquire_lock and release_lock
    admitted        \* the call ids told allowed=true and not released since

gateVars == <<now, ACTIVE, last>>
storeVars == <<RESERVATIONS, RES_INDEX, uuids>>
gateConcVars == <<heap, ACTIVE_ref, gthr, admitted>>
vars == <<now, ACTIVE, last, RESERVATIONS, RES_INDEX, uuids, resp, firstId, thr,
          heap, ACTIVE_ref, gthr, admitted>>

----------------------------------------------------------------------------
(* Program constants *)

MAX_PARALLEL_PER_RESTAURANT == 3
DEFAULT_TTL_SECONDS == 300

(* Bounds of the model *)

MaxTime == 1        \* the clock runs from 0 to MaxTime
MaxRecords == 2     \* the reservation store holds at most MaxRecords records
NumThreads == 2     \* concurrent request threads

----------------------------------------------------------------------------
(* Request values *)

\* payload.get(k) of a key the JSON body does not hold (None)
Absent == "<absent>"

\* restaurant_id sent as the string " ": `not rid` is false, and
\* int(" ") raises ValueError
BlankRid == 0 - 2

\* call_sid values as sent: absent, blank, plain and padded.
RawSids == {Absent, " ", "CA1", " CA1 ", "CA2", "CA3", "CA4"}

\* The (restaurant_id, call_sid) pairs sent to the gate. restaurant_id 0 stands
\* for a missing, null, zero or empty identifier (all falsy under `not rid`), 1
\* is the configured restaurant, 2 a restaurant the configuration does not know,
\* BlankRid an identifier of white space only.
GateCalls ==
    ({1} \X RawSids) \cup ({2} \X {"CA1"}) \cup ({0} \X {"CA1"})
        \cup ({BlankRid} \X {"CA1"})

\* ttl_seconds values as sent: 0 stands for an absent, null or zero value, which
\* selects DEFAULT_TTL_SECONDS (an entry that outlives the clock of the model);
\* 1 is an entry that expires at the next tick.
TtlInputs == {0, 1}

\* str.strip() on the strings the model sends
Strip(s) ==
    CASE s = " " -> ""
      [] s = " CA1 " -> "CA1"
      [] s = " Anna " -> "Anna"
      [] s = " 333 " -> "333"
      [] s = " window " -> "window"
      [] OTHER -> s

\* (payload.get(k) or "").strip()
OrEmptyStrip(v) == IF v = Absent THEN "" ELSE Strip(v)

\* int(payload.get("ttl_seconds") or DEFAULT_TTL_SECONDS)
TtlOf(t) == IF t = 0 THEN DEFAULT_TTL_SECONDS ELSE t

----------------------------------------------------------------------------
(* Dictionaries *)

EmptyDict == [k \in {} |-> 0]

\* dict.get(k, {}) on a dictionary of dictionaries
GetBucket(A, rid) == IF rid \in DOMAIN A THEN A[rid] ELSE EmptyDict

\* dict.pop(k, None)
Pop(d, k) == [x \in (DOMAIN d) \ {k} |-> d[x]]

\* d[k] = v
Put(d, k, v) == [x \in (DOMAIN d) \cup {k} |-> IF x = k THEN v ELSE d[x]]

\* len(bucket)
Len_(d) == Cardinality(DOMAIN d)

----------------------------------------------------------------------------
(* Helpers: cleanup_expired *)

\* Faulty variants of Expired: no entry ever expires; an entry survives its
\* expiry instant; an entry is dropped one second early.
ExpiredNever(bucket, now_ts) == {}
ExpiredStrict(bucket, now_ts) == {sid \in DOMAIN bucket : bucket[sid] < now_ts}
ExpiredEarly(bucket, now_ts) == {sid \in DOMAIN bucket : bucket[sid] <= now_ts + 1}

\* expired = [sid for sid, exp in bucket.items() if exp <= now_ts]
Expired(bucket, now_ts) == {sid \in DOMAIN bucket : bucket[sid] <= now_ts}

\* The bucket after the pops of cleanup_expired.
Purged(bucket, now_ts) ==
    [sid \in (DOMAIN bucket) \ Expired(bucket, now_ts) |-> bucket[sid]]

\* Faulty variant of cleanup_expired: the purge runs over every bucket.
CleanupAllBuckets(A, rid, now_ts) ==
    LET live == {r \in DOMAIN A : DOMAIN Purged(A[r], now_ts) # {}}
    IN  [r \in live |-> Purged(A[r], now_ts)]

cleanup_expired(A, rid, now_ts) ==
    LET bucket == Purged(GetBucket(A, rid), now_ts)
    IN  IF DOMAIN bucket = {}
        THEN Pop(A, rid)
        ELSE Put(A, rid, bucket)

----------------------------------------------------------------------------
(* Gate responses *)

\* The JSON body and status of a gate response, with the return statement that
\* produced it (branch), the number of entries cleanup_expired popped (purged)
\* and whether bucket.pop(call_sid, None) found the entry (removed).
GateResp(op, status, allowed, current, branch, error, purged, removed) ==
    [op |-> op, status |-> status, allowed |-> allowed, current |-> current,
     maximum |-> MAX_PARALLEL_PER_RESTAURANT,
     branch |-> branch, error |-> error, purged |-> purged, removed |-> removed]

NoCall == GateResp("none", 0, FALSE, 0, "none", "", 0, FALSE)

\* rid = int(rid) raises: the handler ends there and the server answers 500 with
\* no JSON body (allowed, current and error stand at their empty values).
Crashed(op) == GateResp(op, 500, FALSE, 0, "crash", "", 0, FALSE)

----------------------------------------------------------------------------
(* acquire_lock *)

\* Faulty variant of AtCapacity: the test lets one entry too many in.
AtCapacityOffByOne(bucket) == Len_(bucket) > MAX_PARALLEL_PER_RESTAURANT

\* if len(bucket) >= MAX_PARALLEL_PER_RESTAURANT
AtCapacity(bucket) == Len_(bucket) >= MAX_PARALLEL_PER_RESTAURANT

\* Faulty variant of Renew: the entry keeps its old expiry.
RenewKeepsExpiry(bucket, call_sid, now_ts, ttl) == bucket

\* bucket[call_sid] = now_ts + ttl on the renew path
Renew(bucket, call_sid, now_ts, ttl) == Put(bucket, call_sid, now_ts + ttl)

\* The whole handler: the gate state and the response it leaves.
acquire_lock(A, rid, raw, ttl_in, now_ts) ==
    LET call_sid == OrEmptyStrip(raw)
        ttl == TtlOf(ttl_in)
    IN  IF rid = 0 \/ call_sid = ""
        THEN [active |-> A,
              resp |-> GateResp("acquire", 400, FALSE, 0, "error",
                                "missing restaurant_id or call_sid", 0, FALSE)]
        ELSE IF rid = BlankRid
        THEN [active |-> A, resp |-> Crashed("acquire")]
        ELSE
        LET A1 == cleanup_expired(A, rid, now_ts)
            purged == Len_(GetBucket(A, rid)) - Len_(GetBucket(A1, rid))
            \* bucket = ACTIVE.setdefault(rid, {})
            bucket == GetBucket(A1, rid)
            A2 == Put(A1, rid, bucket)
        IN  IF call_sid \in DOMAIN bucket
            THEN LET b == Renew(bucket, call_sid, now_ts, ttl)
                 IN [active |-> Put(A2, rid, b),
                     resp |-> GateResp("acquire", 200, TRUE, Len_(b),
                                       "renew", "", purged, FALSE)]
            ELSE IF AtCapacity(bucket)
            THEN [active |-> A2,
                  resp |-> GateResp("acquire", 200, FALSE, Len_(bucket),
                                    "full", "", purged, FALSE)]
            ELSE LET b == Put(bucket, call_sid, now_ts + ttl)
                 IN [active |-> Put(A2, rid, b),
                     resp |-> GateResp("acquire", 200, TRUE, Len_(b),
                                       "insert", "", purged, FALSE)]

Acquire(rid, raw, ttl_in) ==
    LET out == acquire_lock(ACTIVE, rid, raw, ttl_in, now)
    IN  /\ ACTIVE' = out.active
        /\ last' = out.resp
        /\ UNCHANGED <<now, storeVars, resp, firstId, thr, gateConcVars>>

----------------------------------------------------------------------------
(* release_lock *)

\* Faulty variant of CurrentAfterPop: the count is taken before the pop.
CurrentBeforePop(bucket, call_sid) == Len_(bucket)

\* current = len(bucket), taken after bucket.pop(call_sid, None)
CurrentAfterPop(bucket, call_sid) == Len_(Pop(bucket, call_sid))

\* Faulty variant of DropIfEmpty: the emptied bucket stays in ACTIVE.
DropNever(A, rid, current) == A

\* if current == 0 and rid in ACTIVE: ACTIVE.pop(rid, None)
DropIfEmpty(A, rid, current) ==
    IF current = 0 /\ rid \in DOMAIN A THEN Pop(A, rid) ELSE A

release_lock(A, rid, raw, now_ts) ==
    LET call_sid == OrEmptyStrip(raw)
    IN  IF rid = 0 \/ call_sid = ""
        THEN [active |-> A,
              resp |-> GateResp("release", 200, TRUE, 0, "error",
                                "", 0, FALSE)]
        ELSE IF rid = BlankRid
        THEN [active |-> A, resp |-> Crashed("release")]
        ELSE
        LET A1 == cleanup_expired(A, rid, now_ts)
            purged == Len_(GetBucket(A, rid)) - Len_(GetBucket(A1, rid))
            bucket == GetBucket(A1, rid)
            b == Pop(bucket, call_sid)
            current == CurrentAfterPop(bucket, call_sid)
            A2 == IF rid \in DOMAIN A1 THEN Put(A1, rid, b) ELSE A1
            A3 == DropIfEmpty(A2, rid, current)
        IN  [active |-> A3,
             resp |-> GateResp("release", 200, TRUE, current,
                               "release", "", purged,
                               call_sid \in DOMAIN bucket)]

Release(rid, raw) ==
    LET out == release_lock(ACTIVE, rid, raw, now)
    IN  /\ ACTIVE' = out.active
        /\ last' = out.resp
        /\ UNCHANGED <<now, storeVars, resp, firstId, thr, gateConcVars>>

----------------------------------------------------------------------------
(* The clock *)

Tick ==
    /\ now < MaxTime
    /\ now' = now + 1
    /\ UNCHANGED <<ACTIVE, last, storeVars, resp, firstId, thr, gateConcVars>>

----------------------------------------------------------------------------
(* Multi-tenant configuration *)

RESTAURANTS ==
    [rid \in {1} |->
        [name |-> "Haru Asian Fusion Restaurant",
         timezone |-> "Europe/Rome",
         min_people |-> 1,
         max_people |-> 12,
         closed_days |-> {"2025-12-25", "2025-12-26"},
         opening_hours |-> << <<"12:00", "15:00">>, <<"19:00", "23:00">> >>]]

----------------------------------------------------------------------------
(* Strings: the characters of the strings the model sends, for the code that
   looks inside a string (re.fullmatch, str.split, int, str.isdigit) *)

Chars(s) ==
    CASE s = "2025-06-01" -> <<"2","0","2","5","-","0","6","-","0","1">>
      [] s = "2025-12-25" -> <<"2","0","2","5","-","1","2","-","2","5">>
      [] s = "2025/06/01" -> <<"2","0","2","5","/","0","6","/","0","1">>
      [] s = "1 June" -> <<"1"," ","J","u","n","e">>
      [] s = "20:00" -> <<"2","0",":","0","0">>
      [] s = "18:00" -> <<"1","8",":","0","0">>
      [] s = "8pm" -> <<"8","p","m">>
      [] s = "12:00" -> <<"1","2",":","0","0">>
      [] s = "15:00" -> <<"1","5",":","0","0">>
      [] s = "19:00" -> <<"1","9",":","0","0">>
      [] s = "23:00" -> <<"2","3",":","0","0">>
      [] s = "0" -> <<"0">>
      [] s = "1" -> <<"1">>
      [] s = "2" -> <<"2">>
      [] s = "13" -> <<"1","3">>
      [] s = "x" -> <<"x">>
      [] s = "None" -> <<"N","o","n","e">>
      [] OTHER -> <<>>

DigitChars == {"0","1","2","3","4","5","6","7","8","9"}

DigitVal(c) ==
    CASE c = "0" -> 0 [] c = "1" -> 1 [] c = "2" -> 2 [] c = "3" -> 3
      [] c = "4" -> 4 [] c = "5" -> 5 [] c = "6" -> 6 [] c = "7" -> 7
      [] c = "8" -> 8 [] c = "9" -> 9

\* str.isdigit(): non-empty and every character a digit
IsDigitSeq(cs) == Len(cs) > 0 /\ \A i \in 1..Len(cs) : cs[i] \in DigitChars

\* int() of a sequence of digits
RECURSIVE IntOfDigits(_)
IntOfDigits(cs) ==
    IF Len(cs) = 0 THEN 0
    ELSE 10 * IntOfDigits(SubSeq(cs, 1, Len(cs) - 1)) + DigitVal(cs[Len(cs)])

\* a or b
Or(a, b) == IF a = Absent \/ a = "" THEN b ELSE a

\* None where the code holds an int: restaurant_id and people
None == 0 - 1

----------------------------------------------------------------------------
(* Helpers *)

\* re.fullmatch(r"\d{4}-\d{2}-\d{2}", s or "")
is_valid_date(s) ==
    LET cs == Chars(s)
    IN  /\ Len(cs) = 10
        /\ \A i \in {1, 2, 3, 4, 6, 7, 9, 10} : cs[i] \in DigitChars
        /\ cs[5] = "-"
        /\ cs[8] = "-"

\* re.fullmatch(r"\d{2}:\d{2}", s or "")
is_valid_time(s) ==
    LET cs == Chars(s)
    IN  /\ Len(cs) = 5
        /\ \A i \in {1, 2, 4, 5} : cs[i] \in DigitChars
        /\ cs[3] = ":"

\* hh, mm = map(int, t.split(":")); hh * 60 + mm, on a string is_valid_time accepts
MinuteOfDay(t) ==
    LET cs == Chars(t)
    IN  IntOfDigits(SubSeq(cs, 1, 2)) * 60 + IntOfDigits(SubSeq(cs, 4, 5))

within_opening(t, windows) ==
    IF Len(windows) = 0 THEN TRUE
    ELSE \E i \in 1..Len(windows) :
            /\ MinuteOfDay(windows[i][1]) <= MinuteOfDay(t)
            /\ MinuteOfDay(t) <= MinuteOfDay(windows[i][2])

\* rid = int(rid) if str(rid).isdigit() else None
ParseRid(v) ==
    LET cs == IF v = Absent THEN Chars("None") ELSE Chars(v)
    IN  IF IsDigitSeq(cs) THEN IntOfDigits(cs) ELSE None

\* people = int(people) if people is not None else None, None on an exception
ParsePeople(v) ==
    IF v = Absent THEN None
    ELSE IF IsDigitSeq(Chars(v)) THEN IntOfDigits(Chars(v)) ELSE None

\* RESTAURANTS.get(rid, {}).get("timezone")
TimezoneOf(rid) ==
    IF rid \in DOMAIN RESTAURANTS THEN RESTAURANTS[rid].timezone ELSE Absent

normalize_payload(data) ==
    LET rid == ParseRid(Or(data.restaurant_id, data.restaurantId))
    IN  [restaurant_id |-> rid,
         name |-> Strip(Or(Or(data.customer_name, data.name), "")),
         phone |-> Strip(Or(Or(data.customer_phone, data.phone), "")),
         date |-> Strip(Or(data.date, "")),
         time |-> Strip(Or(data.time, "")),
         people |-> ParsePeople(data.people),
         notes |-> Strip(Or(data.notes, "")),
         source |-> Strip(Or(data.source, "twilio")),
         call_sid |-> Strip(Or(Or(data.call_sid, data.callSid), "")),
         tz |-> Strip(Or(Or(Or(data.tz, data.timezone), TimezoneOf(rid)),
                         "Europe/Rome"))]

----------------------------------------------------------------------------
(* Reservations: validate_reservation *)

\* Faulty variant of validate_reservation: the date format is tested before
\* the party size.
ValidateDateFirst(p) ==
    LET rid == p.restaurant_id
    IN  IF rid = None \/ rid = 0 \/ rid \notin DOMAIN RESTAURANTS
        THEN "invalid restaurant_id"
        ELSE
        LET rconf == RESTAURANTS[rid]
        IN  IF p.name = "" THEN "missing name"
            ELSE IF p.phone = "" THEN "missing phone"
            ELSE IF ~is_valid_date(p.date) THEN "date must be YYYY-MM-DD"
            ELSE IF \/ p.people = None
                    \/ p.people < rconf.min_people
                    \/ p.people > rconf.max_people
                 THEN "people must be between 1 and 12"
            ELSE IF ~is_valid_time(p.time) THEN "time must be HH:MM 24h"
            ELSE IF p.date \in rconf.closed_days
                 THEN "restaurant closed on this date"
            ELSE IF ~within_opening(p.time, rconf.opening_hours)
                 THEN "time outside opening hours"
            ELSE ""

\* The error of the first failing rule, "" when every rule passes.
validate_reservation(p) ==
    LET rid == p.restaurant_id
    IN  IF rid = None \/ rid = 0 \/ rid \notin DOMAIN RESTAURANTS
        THEN "invalid restaurant_id"
        ELSE
        LET rconf == RESTAURANTS[rid]
        IN  IF p.name = "" THEN "missing name"
            ELSE IF p.phone = "" THEN "missing phone"
            ELSE IF \/ p.people = None
                    \/ p.people < rconf.min_people
                    \/ p.people > rconf.max_people
                 THEN "people must be between 1 and 12"
            ELSE IF ~is_valid_date(p.date) THEN "date must be YYYY-MM-DD"
            ELSE IF ~is_valid_time(p.time) THEN "time must be HH:MM 24h"
            ELSE IF p.date \in rconf.closed_days
                 THEN "restaurant closed on this date"
            ELSE IF ~within_opening(p.time, rconf.opening_hours)
                 THEN "time outside opening hours"
            ELSE ""

----------------------------------------------------------------------------
(* Reservations: upsert_reservation *)

\* key = f"{p['restaurant_id']}::{p.get('call_sid','')}": the restaurant id is
\* an int, so the text before the first "::" is the restaurant id and the rest
\* the call id, and two keys are equal exactly when both parts are.
KeyOf(p) == <<p.restaurant_id, p.call_sid>>

\* if p.get("call_sid") and key in RES_INDEX
IndexHit(p, index) == p.call_sid # "" /\ KeyOf(p) \in DOMAIN index

\* Faulty variant of Registers: records without a call id are indexed too.
RegistersAlways(p) == TRUE

\* if p.get("call_sid"): RES_INDEX[key] = rid
Registers(p) == p.call_sid # ""

\* res.update({k: v for k, v in p.items() if v not in (None, "", [])})
Update(res, p) ==
    [res EXCEPT
        !.restaurant_id = IF p.restaurant_id # None THEN p.restaurant_id ELSE @,
        !.name = IF p.name # "" THEN p.name ELSE @,
        !.phone = IF p.phone # "" THEN p.phone ELSE @,
        !.date = IF p.date # "" THEN p.date ELSE @,
        !.time = IF p.time # "" THEN p.time ELSE @,
        !.people = IF p.people # None THEN p.people ELSE @,
        !.notes = IF p.notes # "" THEN p.notes ELSE @,
        !.source = IF p.source # "" THEN p.source ELSE @,
        !.call_sid = IF p.call_sid # "" THEN p.call_sid ELSE @,
        !.tz = IF p.tz # "" THEN p.tz ELSE @]

\* Faulty variant of MarkDuplicate: the mark is not set.
MarkDuplicateNever(res) == res

\* res["duplicate"] = True
MarkDuplicate(res) == [res EXCEPT !.duplicate = TRUE]

\* The existing record after the update, the timestamp and the duplicate mark.
\* A timestamp is the clock value; updated_at is None until the first merge.
Merged(res, p, now_ts) ==
    MarkDuplicate([Update(res, p) EXCEPT !.updated_at = now_ts])

\* The record of the create path. The key "duplicate" is not set: get("duplicate")
\* is None, which FALSE stands for.
NewRecord(rid, p, now_ts) ==
    [id |-> rid,
     restaurant_id |-> p.restaurant_id,
     source |-> p.source,
     call_sid |-> p.call_sid,
     name |-> p.name,
     phone |-> p.phone,
     date |-> p.date,
     time |-> p.time,
     people |-> p.people,
     notes |-> p.notes,
     tz |-> p.tz,
     received_at |-> now_ts,
     updated_at |-> None,
     duplicate |-> FALSE]

\* The whole function, run without interruption: the store, the index, the
\* uuid counter and the identifier of the record returned.
upsert_reservation(store, index, issued, p, now_ts) ==
    IF IndexHit(p, index)
    THEN LET rid == index[KeyOf(p)]
         IN  [store |-> Put(store, rid, Merged(store[rid], p, now_ts)),
              index |-> index, issued |-> issued, res |-> rid]
    ELSE LET rid == issued + 1
         IN  [store |-> Put(store, rid, NewRecord(rid, p, now_ts)),
              index |-> IF Registers(p) THEN Put(index, KeyOf(p), rid) ELSE index,
              issued |-> rid, res |-> rid]

----------------------------------------------------------------------------
(* Creation requests *)

NoData ==
    [restaurant_id |-> Absent, restaurantId |-> Absent,
     customer_name |-> Absent, name |-> Absent,
     customer_phone |-> Absent, phone |-> Absent,
     call_sid |-> Absent, callSid |-> Absent,
     source |-> Absent, notes |-> Absent, people |-> Absent,
     date |-> Absent, time |-> Absent, tz |-> Absent, timezone |-> Absent]

\* A request every rule accepts, for call CA1
BaseData ==
    [NoData EXCEPT !.restaurant_id = "1", !.customer_name = "Mario",
                   !.customer_phone = "333", !.call_sid = "CA1",
                   !.people = "2", !.date = "2025-06-01", !.time = "20:00"]

\* Accepted requests: BaseData and variations of its optional fields
ValidVariants ==
    << BaseData,
       [BaseData EXCEPT !.customer_name = Absent, !.name = " Anna "],
       [BaseData EXCEPT !.source = "n8n"],
       [BaseData EXCEPT !.notes = " window ", !.timezone = "UTC"] >>

\* The call ids they are sent with: call CA1, call CA2, no call id
ValidCallSids == <<"CA1", "CA2", Absent>>

ValidRequests ==
    [i \in 1..(Len(ValidVariants) * Len(ValidCallSids)) |->
        [ValidVariants[((i - 1) \div Len(ValidCallSids)) + 1]
            EXCEPT !.call_sid = ValidCallSids[((i - 1) % Len(ValidCallSids)) + 1]]]

\* Other spellings of BaseData's identifiers
AliasRequests ==
    << [BaseData EXCEPT !.call_sid = " CA1 "],
       [BaseData EXCEPT !.call_sid = Absent, !.callSid = "CA1"],
       [BaseData EXCEPT !.call_sid = " "],
       [BaseData EXCEPT !.restaurant_id = Absent, !.restaurantId = "1"],
       [BaseData EXCEPT !.customer_phone = Absent, !.phone = " 333 "] >>

\* Requests a rule rejects
InvalidRequests ==
    << [BaseData EXCEPT !.restaurant_id = Absent],
       [BaseData EXCEPT !.restaurant_id = "2"],
       [BaseData EXCEPT !.restaurant_id = "x"],
       [BaseData EXCEPT !.customer_name = " "],
       [BaseData EXCEPT !.customer_phone = Absent],
       [BaseData EXCEPT !.people = Absent],
       [BaseData EXCEPT !.people = "0"],
       [BaseData EXCEPT !.people = "13"],
       [BaseData EXCEPT !.people = "x"],
       [BaseData EXCEPT !.date = "2025/06/01"],
       [BaseData EXCEPT !.date = Absent],
       [BaseData EXCEPT !.time = "8pm"],
       [BaseData EXCEPT !.date = "2025-12-25"],
       [BaseData EXCEPT !.time = "18:00"],
       [BaseData EXCEPT !.people = "13", !.date = "1 June"],
       [BaseData EXCEPT !.date = "2025-12-25", !.time = "18:00"],
       [BaseData EXCEPT !.call_sid = Absent, !.people = "13"] >>

\* The JSON bodies the model sends; a request is named by its place in this list
RequestData == ValidRequests \o AliasRequests \o InvalidRequests

Requests == 1..Len(RequestData)

\* The request with body d
RequestOf(d) == CHOOSE i \in Requests : RequestData[i] = d

\* normalize_payload and validate_reservation of every request the model sends
\* (both are pure: evaluated once per request)
Normalized == [data \in Requests |-> normalize_payload(RequestData[data])]
Validation == [data \in Requests |-> validate_reservation(Normalized[data])]

----------------------------------------------------------------------------
(* Reservations: create_reservation, one request at a time *)

\* The response: the status, the error of a rejection, and of an accepted
\* request the record as jsonify(res) serialises it.
Rejected(error) == [status |-> 400, ok |-> FALSE, error |-> error, reservation |-> <<>>]
Accepted(res) ==
    [status |-> IF res.duplicate THEN 200 ELSE 201,
     ok |-> TRUE, error |-> "", reservation |-> <<res>>]

NoResponse == [status |-> 0, ok |-> FALSE, error |-> "", reservation |-> <<>>]

\* A thread: where it is in the handler (pc), its request (data, 0 before it
\* arrives), the identifier of the dictionary its variable res refers to (res,
\* 0 before the assignment) and its response.
IdleThread == [pc |-> "idle", data |-> 0, res |-> 0, resp |-> NoResponse]

\* Faulty variant of create_reservation: the upsert runs before the
\* validation result is looked at.
CreateThenValidate(store, index, issued, data, now_ts) ==
    LET payload == Normalized[data]
        error == Validation[data]
        out == upsert_reservation(store, index, issued, payload, now_ts)
    IN  [store |-> out.store, index |-> out.index, issued |-> out.issued,
         resp |-> IF error # "" THEN Rejected(error)
                  ELSE Accepted(out.store[out.res])]

\* Faulty variant of create_reservation: a request with a call id is served
\* only while that call holds a slot of the gate.
CreateNeedsSlot(store, index, issued, data, now_ts) ==
    LET payload == Normalized[data]
        error == Validation[data]
    IN  IF error # ""
        THEN [store |-> store, index |-> index, issued |-> issued,
              resp |-> Rejected(error)]
        ELSE IF /\ payload.call_sid # ""
                /\ payload.call_sid \notin
                        DOMAIN GetBucket(ACTIVE, payload.restaurant_id)
        THEN [store |-> store, index |-> index, issued |-> issued,
              resp |-> Rejected("no slot")]
        ELSE LET out == upsert_reservation(store, index, issued, payload, now_ts)
             IN  [store |-> out.store, index |-> out.index, issued |-> out.issued,
                  resp |-> Accepted(out.store[out.res])]

create_reservation(store, index, issued, data, now_ts) ==
    LET payload == Normalized[data]
        error == Validation[data]
    IN  IF error # ""
        THEN [store |-> store, index |-> index, issued |-> issued,
              resp |-> Rejected(error)]
        ELSE LET out == upsert_reservation(store, index, issued, payload, now_ts)
             IN  [store |-> out.store, index |-> out.index, issued |-> out.issued,
                  resp |-> Accepted(out.store[out.res])]

\* The first record handed out for each dedup key with a non-empty call id
\* (a record of the run, not a variable of the program).
FirstIdAfter(first, data, response) ==
    LET p == Normalized[data]
    IN  IF response.ok /\ p.call_sid # "" /\ KeyOf(p) \notin DOMAIN first
        THEN Put(first, KeyOf(p), response.reservation[1].id)
        ELSE first

Create(data) ==
    LET out == create_reservation(RESERVATIONS, RES_INDEX, uuids, data, now)
    IN  /\ Len_(out.store) <= MaxRecords
        /\ RESERVATIONS' = out.store
        /\ RES_INDEX' = out.index
        /\ uuids' = out.issued
        /\ resp' = out.resp
        /\ firstId' = FirstIdAfter(firstId, data, out.resp)
        /\ UNCHANGED <<gateVars, thr, gateConcVars>>

----------------------------------------------------------------------------
(* Sequential gate: each request runs to completion before the next starts *)

\* A gate thread: where it is in the handler (pc), its request (op, rid,
\* call_sid), the object its local variable bucket refers to (bucket, 0 for no
\* object of the heap: before the assignment, or the fresh {} of
\* ACTIVE.get(rid, {})), the response it prepares (allowed, current) and
\* whether a Release of its own call id ran while it was in acquire_lock
\* (raced, a record of the run).
IdleGate ==
    [pc |-> "idle", op |-> "none", rid |-> 0, call_sid |-> "", bucket |-> 0,
     allowed |-> FALSE, current |-> 0, raced |-> FALSE]

Init ==
    /\ now = 0
    /\ ACTIVE = EmptyDict
    /\ last = NoCall
    /\ RESERVATIONS = EmptyDict
    /\ RES_INDEX = EmptyDict
    /\ uuids = 0
    /\ resp = NoResponse
    /\ firstId = EmptyDict
    /\ thr = [t \in 1..NumThreads |-> IdleThread]
    /\ heap = EmptyDict
    /\ ACTIVE_ref = EmptyDict
    /\ gthr = [t \in 1..NumThreads |-> IdleGate]
    /\ admitted = {}

AcquireAny == \E c \in GateCalls, t \in TtlInputs : Acquire(c[1], c[2], t)
ReleaseAny == \E c \in GateCalls : Release(c[1], c[2])

Next == AcquireAny \/ ReleaseAny \/ Tick

Spec == Init /\ [][Next]_vars

----------------------------------------------------------------------------
(* Sequential creation: each request runs to completion before the next starts *)

CreateAny == \E data \in Requests : Create(data)

NextUpsert == CreateAny

SpecUpsert == Init /\ [][NextUpsert]_vars

----------------------------------------------------------------------------
(* Concurrent creation: request threads interleave at the reads and writes of
   RESERVATIONS and RES_INDEX. The code takes no lock, and a record returned by
   upsert_reservation is the stored dictionary itself, not a copy. *)

Threads == 1..NumThreads

\* The requests the threads send
ConcRequests ==
    { RequestOf(BaseData),
      RequestOf([BaseData EXCEPT !.source = "n8n"]),
      RequestOf([BaseData EXCEPT !.call_sid = Absent]),
      RequestOf([BaseData EXCEPT !.people = "13"]) }

\* lines 211-215: the request arrives, is normalised and validated
Begin(t, data) ==
    /\ thr[t].pc = "idle"
    /\ thr' = [thr EXCEPT ![t] =
                IF Validation[data] # ""
                THEN [pc |-> "done", data |-> data, res |-> 0,
                      resp |-> Rejected(Validation[data])]
                ELSE [pc |-> "check", data |-> data, res |-> 0,
                      resp |-> NoResponse]]
    /\ UNCHANGED <<gateVars, storeVars, resp, firstId, gateConcVars>>

\* line 179: if p.get("call_sid") and key in RES_INDEX
CheckIndex(t) ==
    /\ thr[t].pc = "check"
    /\ thr' = [thr EXCEPT ![t].pc =
                IF IndexHit(Normalized[thr[t].data], RES_INDEX)
                THEN "fetch" ELSE "store"]
    /\ UNCHANGED <<gateVars, storeVars, resp, firstId, gateConcVars>>

\* lines 180-181: rid = RES_INDEX[key]; res = RESERVATIONS[rid]
Fetch(t) ==
    /\ thr[t].pc = "fetch"
    /\ thr' = [thr EXCEPT ![t].pc = "update",
                          ![t].res = RES_INDEX[KeyOf(Normalized[thr[t].data])]]
    /\ UNCHANGED <<gateVars, storeVars, resp, firstId, gateConcVars>>

\* line 183: res.update(...)
UpdateRecord(t) ==
    /\ thr[t].pc = "update"
    /\ RESERVATIONS' = [RESERVATIONS EXCEPT ![thr[t].res] =
                            Update(@, Normalized[thr[t].data])]
    /\ thr' = [thr EXCEPT ![t].pc = "stamp"]
    /\ UNCHANGED <<gateVars, RES_INDEX, uuids, resp, firstId, gateConcVars>>

\* line 184: res["updated_at"] = now_utc_iso()
Stamp(t) ==
    /\ thr[t].pc = "stamp"
    /\ RESERVATIONS' = [RESERVATIONS EXCEPT ![thr[t].res].updated_at = now]
    /\ thr' = [thr EXCEPT ![t].pc = "mark"]
    /\ UNCHANGED <<gateVars, RES_INDEX, uuids, resp, firstId, gateConcVars>>

\* lines 185-186: res["duplicate"] = True; return res
Mark(t) ==
    /\ thr[t].pc = "mark"
    /\ RESERVATIONS' = [RESERVATIONS EXCEPT ![thr[t].res] = MarkDuplicate(@)]
    /\ thr' = [thr EXCEPT ![t].pc = "status"]
    /\ UNCHANGED <<gateVars, RES_INDEX, uuids, resp, firstId, gateConcVars>>

\* lines 188-203: rid = str(uuid4()); res = {...}; RESERVATIONS[rid] = res
Store(t) ==
    /\ thr[t].pc = "store"
    /\ LET rid == uuids + 1
           p == Normalized[thr[t].data]
       IN  /\ uuids' = rid
           /\ RESERVATIONS' = Put(RESERVATIONS, rid, NewRecord(rid, p, now))
           /\ thr' = [thr EXCEPT ![t].res = rid,
                                 ![t].pc = IF Registers(p) THEN "register"
                                           ELSE "status"]
    /\ UNCHANGED <<gateVars, RES_INDEX, resp, firstId, gateConcVars>>

\* lines 204-206: RES_INDEX[key] = rid; return res
Register(t) ==
    /\ thr[t].pc = "register"
    /\ RES_INDEX' = Put(RES_INDEX, KeyOf(Normalized[thr[t].data]), thr[t].res)
    /\ thr' = [thr EXCEPT ![t].pc = "status"]
    /\ UNCHANGED <<gateVars, RESERVATIONS, uuids, resp, firstId, gateConcVars>>

\* line 217: status = 200 if res.get("duplicate") else 201
ReadStatus(t) ==
    /\ thr[t].pc = "status"
    /\ thr' = [thr EXCEPT ![t].pc = "respond",
                          ![t].resp.status =
                              IF RESERVATIONS[thr[t].res].duplicate
                              THEN 200 ELSE 201]
    /\ UNCHANGED <<gateVars, storeVars, resp, firstId, gateConcVars>>

\* line 218: return jsonify({"ok": True, "reservation": res}), status
Respond(t) ==
    /\ thr[t].pc = "respond"
    /\ thr' = [thr EXCEPT ![t].pc = "done",
                          ![t].resp.ok = TRUE,
                          ![t].resp.reservation = <<RESERVATIONS[thr[t].res]>>]
    /\ UNCHANGED <<gateVars, storeVars, resp, firstId, gateConcVars>>

BeginAny == \E t \in Threads, data \in ConcRequests : Begin(t, data)
CheckIndexAny == \E t \in Threads : CheckIndex(t)
FetchAny == \E t \in Threads : Fetch(t)
UpdateRecordAny == \E t \in Threads : UpdateRecord(t)
StampAny == \E t \in Threads : Stamp(t)
MarkAny == \E t \in Threads : Mark(t)
StoreAny == \E t \in Threads : Store(t)
RegisterAny == \E t \in Threads : Register(t)
ReadStatusAny == \E t \in Threads : ReadStatus(t)
RespondAny == \E t \in Threads : Respond(t)

NextConc ==
    \/ BeginAny \/ CheckIndexAny \/ FetchAny \/ UpdateRecordAny \/ StampAny
    \/ MarkAny \/ StoreAny \/ RegisterAny \/ ReadStatusAny \/ RespondAny

SpecConc == Init /\ [][NextConc]_vars

----------------------------------------------------------------------------
(* Concurrent gate: request threads interleave between the statements of
   acquire_lock, release_lock and cleanup_expired. The code takes no lock. A
   bucket is a dictionary object that ACTIVE and the local variables of the
   threads refer to; an object that ACTIVE no longer refers to can still be
   written through a local variable. Every entry carries the default ttl and
   the clock stands still, so no entry expires here. *)

\* The requests the gate threads send, all for restaurant 1
ConcAcquires == {"CA1", "CA2", "CA3", "CA4"}
ConcReleases == {"CA1"}

\* The bucket object o; object 0 is a fresh empty dictionary
Obj(h, o) == IF o \in DOMAIN h THEN h[o] ELSE EmptyDict

\* The objects ACTIVE or a local variable refers to
Referenced(act, th) ==
    ({act[r] : r \in DOMAIN act} \cup {th[t].bucket : t \in DOMAIN th}) \ {0}

\* The heap without the objects nothing refers to
Collected(h, act, th) == [o \in (DOMAIN h) \cap Referenced(act, th) |-> h[o]]

\* The identifier of a new object
NewObj(h) ==
    CHOOSE o \in 1..(Len_(h) + 1) :
        o \notin DOMAIN h /\ \A m \in 1..(o - 1) : m \in DOMAIN h

\* One step of thread t: its new record, the new ACTIVE, the new heap and the
\* new set of admitted call ids
GateStep(t, rec, act, h, adm) ==
    /\ gthr' = [gthr EXCEPT ![t] = rec]
    /\ ACTIVE_ref' = act
    /\ heap' = Collected(h, act, gthr')
    /\ admitted' = adm
    /\ UNCHANGED <<gateVars, storeVars, resp, firstId, thr>>

\* lines 116-123 and 137-143: the request arrives and passes the input check.
\* A Release marks the threads that are acquiring its call id.
GBegin(t, op, call_sid) ==
    /\ gthr[t].pc = "idle"
    /\ gthr' = [u \in DOMAIN gthr |->
                IF u = t
                THEN [IdleGate EXCEPT
                        !.pc = "cleanup_get", !.op = op, !.rid = 1,
                        !.call_sid = call_sid,
                        !.raced = /\ op = "acquire"
                                  /\ \E v \in DOMAIN gthr :
                                        /\ gthr[v].op = "release"
                                        /\ gthr[v].call_sid = call_sid]
                ELSE IF /\ op = "release"
                        /\ gthr[u].op = "acquire"
                        /\ gthr[u].call_sid = call_sid
                THEN [gthr[u] EXCEPT !.raced = TRUE]
                ELSE gthr[u]]
    /\ UNCHANGED <<heap, ACTIVE_ref, admitted>>
    /\ UNCHANGED <<gateVars, storeVars, resp, firstId, thr>>

\* lines 45-48: bucket = ACTIVE.get(rid, {}), and the expired entries are
\* popped from it. No entry is expired here, so the purge writes nothing and
\* no other thread can tell the two statements apart.
CleanupGet(t) ==
    /\ gthr[t].pc = "cleanup_get"
    /\ GateStep(t, [gthr[t] EXCEPT
                        !.pc = "cleanup_drop",
                        !.bucket = IF gthr[t].rid \in DOMAIN ACTIVE_ref
                                   THEN ACTIVE_ref[gthr[t].rid] ELSE 0],
                ACTIVE_ref,
                IF gthr[t].rid \notin DOMAIN ACTIVE_ref THEN heap
                ELSE Put(heap, ACTIVE_ref[gthr[t].rid],
                         Purged(Obj(heap, ACTIVE_ref[gthr[t].rid]), now)),
                admitted)

\* lines 49-50: if not bucket: ACTIVE.pop(rid, None)
CleanupDrop(t) ==
    /\ gthr[t].pc = "cleanup_drop"
    /\ GateStep(t, [gthr[t] EXCEPT
                        !.pc = IF gthr[t].op = "acquire"
                               THEN "setdefault" ELSE "release_get",
                        !.bucket = 0],
                IF DOMAIN Obj(heap, gthr[t].bucket) = {}
                THEN Pop(ACTIVE_ref, gthr[t].rid) ELSE ACTIVE_ref,
                heap, admitted)

\* line 125: bucket = ACTIVE.setdefault(rid, {})
SetDefault(t) ==
    /\ gthr[t].pc = "setdefault"
    /\ IF gthr[t].rid \in DOMAIN ACTIVE_ref
       THEN GateStep(t, [gthr[t] EXCEPT
                            !.pc = "member",
                            !.bucket = ACTIVE_ref[gthr[t].rid]],
                     ACTIVE_ref, heap, admitted)
       ELSE GateStep(t, [gthr[t] EXCEPT
                            !.pc = "member", !.bucket = NewObj(heap)],
                     Put(ACTIVE_ref, gthr[t].rid, NewObj(heap)),
                     Put(heap, NewObj(heap), EmptyDict), admitted)

\* line 127: if call_sid in bucket
MemberTest(t) ==
    /\ gthr[t].pc = "member"
    /\ GateStep(t, [gthr[t] EXCEPT
                        !.pc = IF gthr[t].call_sid
                                    \in DOMAIN Obj(heap, gthr[t].bucket)
                               THEN "renew" ELSE "cap"],
                ACTIVE_ref, heap, admitted)

\* line 128: bucket[call_sid] = now + ttl
RenewEntry(t) ==
    /\ gthr[t].pc = "renew"
    /\ GateStep(t, [gthr[t] EXCEPT !.pc = "acquire_reply", !.allowed = TRUE],
                ACTIVE_ref,
                Put(heap, gthr[t].bucket,
                    Put(Obj(heap, gthr[t].bucket), gthr[t].call_sid,
                        now + DEFAULT_TTL_SECONDS)),
                admitted)

\* line 130: if len(bucket) >= MAX_PARALLEL_PER_RESTAURANT
CapTest(t) ==
    /\ gthr[t].pc = "cap"
    /\ GateStep(t, [gthr[t] EXCEPT
                        !.pc = IF Len_(Obj(heap, gthr[t].bucket))
                                    >= MAX_PARALLEL_PER_RESTAURANT
                               THEN "acquire_reply" ELSE "insert",
                        !.allowed = FALSE],
                ACTIVE_ref, heap, admitted)

\* line 132: bucket[call_sid] = now + ttl
InsertEntry(t) ==
    /\ gthr[t].pc = "insert"
    /\ GateStep(t, [gthr[t] EXCEPT !.pc = "acquire_reply", !.allowed = TRUE],
                ACTIVE_ref,
                Put(heap, gthr[t].bucket,
                    Put(Obj(heap, gthr[t].bucket), gthr[t].call_sid,
                        now + DEFAULT_TTL_SECONDS)),
                admitted)

\* lines 129, 131 and 133: the response, with current = len(bucket); the
\* caller that is told allowed=true counts as admitted
AcquireReply(t) ==
    /\ gthr[t].pc = "acquire_reply"
    /\ GateStep(t, IdleGate, ACTIVE_ref, heap,
                IF gthr[t].allowed
                THEN admitted \cup {gthr[t].call_sid} ELSE admitted)

\* line 145: bucket = ACTIVE.get(rid, {})
ReleaseGet(t) ==
    /\ gthr[t].pc = "release_get"
    /\ GateStep(t, [gthr[t] EXCEPT
                        !.pc = "release_pop",
                        !.bucket = IF gthr[t].rid \in DOMAIN ACTIVE_ref
                                   THEN ACTIVE_ref[gthr[t].rid] ELSE 0],
                ACTIVE_ref, heap, admitted)

\* line 146: bucket.pop(call_sid, None); the caller has released
ReleasePop(t) ==
    /\ gthr[t].pc = "release_pop"
    /\ GateStep(t, [gthr[t] EXCEPT !.pc = "release_len"],
                ACTIVE_ref,
                IF gthr[t].bucket = 0 THEN heap
                ELSE Put(heap, gthr[t].bucket,
                         Pop(Obj(heap, gthr[t].bucket), gthr[t].call_sid)),
                admitted \ {gthr[t].call_sid})

\* line 147: current = len(bucket)
ReleaseLen(t) ==
    /\ gthr[t].pc = "release_len"
    /\ GateStep(t, [gthr[t] EXCEPT
                        !.pc = "release_drop",
                        !.current = Len_(Obj(heap, gthr[t].bucket))],
                ACTIVE_ref, heap, admitted)

\* lines 148-149: if current == 0: ACTIVE.pop(rid, None)
ReleaseDrop(t) ==
    /\ gthr[t].pc = "release_drop"
    /\ GateStep(t, [gthr[t] EXCEPT !.pc = "release_reply"],
                IF gthr[t].current = 0
                THEN Pop(ACTIVE_ref, gthr[t].rid) ELSE ACTIVE_ref,
                heap, admitted)

\* line 150: the response
ReleaseReply(t) ==
    /\ gthr[t].pc = "release_reply"
    /\ GateStep(t, IdleGate, ACTIVE_ref, heap, admitted)

GBeginAcquire == \E t \in Threads, s \in ConcAcquires : GBegin(t, "acquire", s)
GBeginRelease == \E t \in Threads, s \in ConcReleases : GBegin(t, "release", s)
CleanupGetAny == \E t \in Threads : CleanupGet(t)
CleanupDropAny == \E t \in Threads : CleanupDrop(t)
SetDefaultAny == \E t \in Threads : SetDefault(t)
MemberTestAny == \E t \in Threads : MemberTest(t)
RenewEntryAny == \E t \in Threads : RenewEntry(t)
CapTestAny == \E t \in Threads : CapTest(t)
InsertEntryAny == \E t \in Threads : InsertEntry(t)
AcquireReplyAny == \E t \in Threads : AcquireReply(t)
ReleaseGetAny == \E t \in Threads : ReleaseGet(t)
ReleasePopAny == \E t \in Threads : ReleasePop(t)
ReleaseLenAny == \E t \in Threads : ReleaseLen(t)
ReleaseDropAny == \E t \in Threads : ReleaseDrop(t)
ReleaseReplyAny == \E t \in Threads : ReleaseReply(t)

NextGateConc ==
    \/ GBeginAcquire \/ GBeginRelease
    \/ CleanupGetAny \/ CleanupDropAny
    \/ SetDefaultAny \/ MemberTestAny \/ RenewEntryAny \/ CapTestAny
    \/ InsertEntryAny \/ AcquireReplyAny
    \/ ReleaseGetAny \/ ReleasePopAny \/ ReleaseLenAny \/ ReleaseDropAny
    \/ ReleaseReplyAny

SpecGateConc == Init /\ [][NextGateConc]_vars

\* The bucket of restaurant 1 in the shared gate state
SharedBucket ==
    IF 1 \in DOMAIN ACTIVE_ref THEN Obj(heap, ACTIVE_ref[1]) ELSE EmptyDict

----------------------------------------------------------------------------
(* Gate and creation together, one request at a time: callers take and give
   back slots of restaurant 1 while reservations are created *)

MixedCalls == {1} \X {"CA1", "CA2", "CA3", "CA4"}

\* A request for call CA1, one without a call id, and every rejected request
MixedRequests ==
    {RequestOf(BaseData), RequestOf([BaseData EXCEPT !.call_sid = Absent])}
        \cup {d \in Requests : Validation[d] # ""}

MixedAcquire == \E c \in MixedCalls : Acquire(c[1], c[2], 0)
MixedRelease == \E c \in MixedCalls : Release(c[1], c[2])
MixedCreate == \E d \in MixedRequests : Create(d)

NextMixed == MixedAcquire \/ MixedRelease \/ MixedCreate

SpecMixed == Init /\ [][NextMixed]_vars

----------------------------------------------------------------------------
(* Abandoned slots: callers take slots of restaurant 1 and never release or
   renew them, the clock keeps advancing, and one more caller keeps retrying *)

\* The call ids of the callers that abandon their slot, and the one that retries
Holders == {"CA1", "CA2", "CA3", "CA5"}
Retrier == "CA4"

\* A holder takes a slot with a ttl_seconds that ends within the clock's range.
HolderAcquire ==
    \E sid \in Holders, ttl \in 1..MaxTime :
        /\ sid \notin DOMAIN GetBucket(ACTIVE, 1)
        /\ now + ttl <= MaxTime
        /\ Acquire(1, sid, ttl)

\* The retrying caller asks again.
Retry == \E t \in TtlInputs : Acquire(1, Retrier, t)

NextAbandon == HolderAcquire \/ Retry \/ Tick

\* The clock keeps advancing and the caller keeps retrying.
SpecAbandon ==
    Init /\ [][NextAbandon]_vars /\ WF_vars(Tick) /\ WF_vars(Retry)

----------------------------------------------------------------------------
(* Properties of the sequential gate *)

\* The bucket of restaurant rid in the gate state A
BucketOf(A, rid) == GetBucket(A, rid)

\* The number of entries of rid's bucket whose expiry is strictly after t
LiveCount(A, rid, t) ==
    Cardinality({sid \in DOMAIN BucketOf(A, rid) : BucketOf(A, rid)[sid] > t})

\* A gate request that names a restaurant and a call id
WellFormed(c) == c[1] > 0 /\ OrEmptyStrip(c[2]) # ""

\* C1: in every state reached by sequential Acquire and Release calls and clock
\* ticks, no restaurant's bucket holds more than MAX_PARALLEL_PER_RESTAURANT
\* entries whose expiry is strictly greater than the current time.
C1_GateCap ==
    \A rid \in DOMAIN ACTIVE :
        LiveCount(ACTIVE, rid, now) <= MAX_PARALLEL_PER_RESTAURANT

\* An acquisition has just filled restaurant 1's bucket with live entries.
C1_Witness ==
    /\ last.branch = "insert"
    /\ last.current = MAX_PARALLEL_PER_RESTAURANT
    /\ LiveCount(ACTIVE, 1, now) = MAX_PARALLEL_PER_RESTAURANT

\* C5: an Acquire for a call id that is not in the restaurant's bucket, while the
\* bucket holds MAX_PARALLEL_PER_RESTAURANT unexpired entries, answers
\* allowed=false, current=maximum=MAX_PARALLEL_PER_RESTAURANT and leaves the
\* whole gate state (every restaurant, every call id, every expiry) as it was.
C5_RejectNoMutation ==
    [][\A c \in GateCalls, t \in TtlInputs :
        ( /\ WellFormed(c)
          /\ OrEmptyStrip(c[2]) \notin DOMAIN BucketOf(ACTIVE, c[1])
          /\ LiveCount(ACTIVE, c[1], now) = MAX_PARALLEL_PER_RESTAURANT
          /\ Acquire(c[1], c[2], t) )
        => ( /\ last'.allowed = FALSE
             /\ last'.current = MAX_PARALLEL_PER_RESTAURANT
             /\ last'.maximum = MAX_PARALLEL_PER_RESTAURANT
             /\ ACTIVE' = ACTIVE )]_vars

\* A fourth call id has just been refused on a bucket of three live entries.
C5_Witness ==
    /\ last.branch = "full"
    /\ last.allowed = FALSE
    /\ LiveCount(ACTIVE, 1, now) = MAX_PARALLEL_PER_RESTAURANT

\* C6: an Acquire for a call id that holds an unexpired entry in the bucket
\* answers allowed=true (also at MAX_PARALLEL_PER_RESTAURANT), sets that entry's
\* expiry to now + ttl, adds no call id to the bucket, removes no unexpired
\* entry and does not lower the number of unexpired entries.
C6_IdempotentReacquire ==
    [][\A c \in GateCalls, t \in TtlInputs :
        LET rid == c[1]
            sid == OrEmptyStrip(c[2])
            old == BucketOf(ACTIVE, rid)
            new == BucketOf(ACTIVE', rid)
        IN  ( /\ WellFormed(c)
              /\ sid \in DOMAIN old
              /\ old[sid] > now
              /\ Acquire(rid, c[2], t) )
            => ( /\ last'.allowed = TRUE
                 /\ sid \in DOMAIN new
                 /\ new[sid] = now + TtlOf(t)
                 /\ DOMAIN new \subseteq DOMAIN old
                 /\ \A x \in DOMAIN old : old[x] > now => x \in DOMAIN new
                 /\ LiveCount(ACTIVE', rid, now') >= LiveCount(ACTIVE, rid, now) )]_vars

\* A call id has just renewed its slot in a bucket that is at the cap.
C6_Witness ==
    /\ last.branch = "renew"
    /\ last.allowed = TRUE
    /\ last.current = MAX_PARALLEL_PER_RESTAURANT

\* C7: after any Release(R, C), a second Release(R, C) issued before any entry
\* of R's bucket expires leaves the gate state as the first call left it and
\* answers allowed=true with the current value of the first call.
C7_ReleaseIdempotent ==
    [][\A c \in GateCalls :
        (c[1] >= 0 /\ Release(c[1], c[2])) =>
            \A t2 \in now'..MaxTime :
                (\A x \in DOMAIN BucketOf(ACTIVE', c[1]) :
                    BucketOf(ACTIVE', c[1])[x] > t2)
                => LET second == release_lock(ACTIVE', c[1], c[2], t2)
                   IN  /\ second.active = ACTIVE'
                       /\ second.resp.allowed = TRUE
                       /\ second.resp.current = last'.current]_vars

\* A Release has just found nothing to remove (as the second of two Releases of
\* the same call id does) in a bucket that still holds other entries.
C7_Witness ==
    /\ last.branch = "release"
    /\ last.removed = FALSE
    /\ last.current > 0

\* C8 as stated: every Release call, whatever the request holds, answers
\* allowed=true and a current value equal to the number of unexpired entries
\* left in that restaurant's bucket.
C8_ReleaseCountsLive ==
    [][\A c \in GateCalls :
        Release(c[1], c[2]) =>
            /\ last'.allowed = TRUE
            /\ last'.current = LiveCount(ACTIVE', c[1], now')]_vars

\* What release_lock answers: with a restaurant id and a non-blank call id,
\* allowed=true and current is the number of unexpired entries left in that
\* restaurant's bucket; with a missing restaurant id or a blank call id,
\* allowed=true and current is 0 whatever the bucket holds, and the gate state
\* is not touched; with a restaurant id of white space, a server error.
C8_ReleaseResponse ==
    [][\A c \in GateCalls :
        Release(c[1], c[2]) =>
            IF WellFormed(c)
            THEN /\ last'.allowed = TRUE
                 /\ last'.status = 200
                 /\ last'.current = LiveCount(ACTIVE', c[1], now')
            ELSE /\ ACTIVE' = ACTIVE
                 /\ IF c[1] = BlankRid
                    THEN last'.status = 500
                    ELSE /\ last'.allowed = TRUE
                         /\ last'.status = 200
                         /\ last'.current = 0]_vars

\* A Release has just removed an entry and reported the entries that remain.
C8_Witness ==
    /\ last.branch = "release"
    /\ last.removed = TRUE
    /\ last.current > 0
    /\ last.current = LiveCount(ACTIVE, 1, now)

\* C13 as stated: an Acquire whose restaurant id or call id is missing or blank
\* is answered with an input error (allowed=false and an error reason) and
\* leaves the gate state of every restaurant as it was.
C13_AcquireInputError ==
    [][\A c \in GateCalls, t \in TtlInputs :
        ( /\ (c[1] \in {0, BlankRid} \/ OrEmptyStrip(c[2]) = "")
          /\ Acquire(c[1], c[2], t) )
        => ( /\ last'.status = 400
             /\ last'.allowed = FALSE
             /\ last'.error # ""
             /\ ACTIVE' = ACTIVE )]_vars

\* What acquire_lock does with such a request: a missing, null, zero or empty
\* restaurant id, or a call id that is missing or blank after trimming, is
\* answered 400 with allowed=false and an error reason; a restaurant id of
\* white space with a call id ends in a server error; neither touches the gate.
C13_AcquireRejects ==
    [][\A c \in GateCalls, t \in TtlInputs :
        ( /\ ~WellFormed(c)
          /\ Acquire(c[1], c[2], t) )
        => ( /\ ACTIVE' = ACTIVE
             /\ IF c[1] = 0 \/ OrEmptyStrip(c[2]) = ""
                THEN /\ last'.status = 400
                     /\ last'.allowed = FALSE
                     /\ last'.error = "missing restaurant_id or call_sid"
                ELSE last'.status = 500 )]_vars

\* An Acquire without a call id has just been refused while the bucket holds an
\* expired entry, which it did not purge.
C13_Witness ==
    /\ last.op = "acquire"
    /\ last.branch = "error"
    /\ \E sid \in DOMAIN BucketOf(ACTIVE, 1) : BucketOf(ACTIVE, 1)[sid] <= now

\* C16: after every completed Acquire or Release call, ACTIVE holds no
\* restaurant whose bucket is empty.
C16_NoEmptyBuckets ==
    \A rid \in DOMAIN ACTIVE : DOMAIN ACTIVE[rid] # {}

\* A Release has just removed the last entry of restaurant 1's bucket, and the
\* restaurant is gone from ACTIVE.
C16_Witness ==
    /\ last.branch = "release"
    /\ last.removed = TRUE
    /\ last.current = 0
    /\ 1 \notin DOMAIN ACTIVE

\* The gate state with every bucket but rid's taken away
OnlyBucket(A, rid) == [r \in (DOMAIN A) \cap {rid} |-> A[r]]

\* The gate state without rid's bucket
OtherBuckets(A, rid) == [r \in (DOMAIN A) \ {rid} |-> A[r]]

\* C18: in every reachable state, for every request, an Acquire or Release for
\* restaurant R leaves the bucket of every other restaurant exactly as it was
\* (expired entries included), and its response is the one it gives when R's
\* bucket is the only bucket of the gate; so an Acquire for R with fewer than
\* MAX_PARALLEL_PER_RESTAURANT stored entries is allowed whatever other buckets
\* hold.
C18_RestaurantIsolation ==
    /\ \A c \in GateCalls, t \in TtlInputs :
        LET out == acquire_lock(ACTIVE, c[1], c[2], t, now)
        IN  /\ OtherBuckets(out.active, c[1]) = OtherBuckets(ACTIVE, c[1])
            /\ out.resp = acquire_lock(OnlyBucket(ACTIVE, c[1]),
                                       c[1], c[2], t, now).resp
            /\ ( WellFormed(c)
                 /\ Len_(BucketOf(ACTIVE, c[1])) < MAX_PARALLEL_PER_RESTAURANT )
               => out.resp.allowed = TRUE
    /\ \A c \in GateCalls :
        LET out == release_lock(ACTIVE, c[1], c[2], now)
        IN  /\ OtherBuckets(out.active, c[1]) = OtherBuckets(ACTIVE, c[1])
            /\ out.resp = release_lock(OnlyBucket(ACTIVE, c[1]),
                                       c[1], c[2], now).resp

\* Restaurant 2 has just been admitted while restaurant 1's bucket is full and
\* holds an expired entry.
C18_Witness ==
    /\ last.branch = "insert"
    /\ last.current = 1
    /\ Len_(BucketOf(ACTIVE, 1)) = MAX_PARALLEL_PER_RESTAURANT
    /\ \E sid \in DOMAIN BucketOf(ACTIVE, 1) : BucketOf(ACTIVE, 1)[sid] <= now
    /\ 2 \in DOMAIN ACTIVE

\* C17: whenever restaurant 1's bucket holds MAX_PARALLEL_PER_RESTAURANT
\* unexpired entries of callers that never release or renew, and the clock keeps
\* advancing, the caller that keeps retrying with a new call id is eventually
\* admitted.
C17_AbandonedSlotsFreed ==
    ( /\ LiveCount(ACTIVE, 1, now) = MAX_PARALLEL_PER_RESTAURANT
      /\ Retrier \notin DOMAIN BucketOf(ACTIVE, 1) )
    ~> ( /\ Retrier \in DOMAIN BucketOf(ACTIVE, 1)
         /\ BucketOf(ACTIVE, 1)[Retrier] > now )

\* The retrying caller has just been admitted by a call that purged the
\* MAX_PARALLEL_PER_RESTAURANT expired entries of a full bucket.
C17_Witness ==
    /\ last.branch = "insert"
    /\ last.allowed = TRUE
    /\ last.purged = MAX_PARALLEL_PER_RESTAURANT
    /\ Retrier \in DOMAIN BucketOf(ACTIVE, 1)

\* C9: an Acquire at time t for a call id that is not in the bucket is allowed
\* whenever fewer than MAX_PARALLEL_PER_RESTAURANT entries of the bucket have
\* expiry > t, however many entries with expiry <= t are stored; the call
\* inserts the call id and leaves no entry with expiry <= t in the bucket.
C9_ExpiredDoNotBlock ==
    [][\A c \in GateCalls, t \in TtlInputs :
        LET rid == c[1]
            sid == OrEmptyStrip(c[2])
            new == BucketOf(ACTIVE', rid)
        IN  ( /\ WellFormed(c)
              /\ sid \notin DOMAIN BucketOf(ACTIVE, rid)
              /\ LiveCount(ACTIVE, rid, now) < MAX_PARALLEL_PER_RESTAURANT
              /\ Acquire(rid, c[2], t) )
            => ( /\ last'.allowed = TRUE
                 /\ sid \in DOMAIN new
                 /\ new[sid] = now + TtlOf(t)
                 /\ \A x \in DOMAIN new : new[x] > now
                 /\ last'.current = LiveCount(ACTIVE, rid, now) + 1 )]_vars

\* A new call id has just been admitted to a bucket that stored
\* MAX_PARALLEL_PER_RESTAURANT entries, one of them expired and purged by the call.
C9_Witness ==
    /\ last.branch = "insert"
    /\ last.allowed = TRUE
    /\ last.purged >= 1
    /\ last.current = MAX_PARALLEL_PER_RESTAURANT

----------------------------------------------------------------------------
(* Properties of creation *)

\* The validation rules in their order: restaurant known, name, phone, party
\* size, date format, time format, closed date, opening window
RuleReason ==
    << "invalid restaurant_id", "missing name", "missing phone",
       "people must be between 1 and 12", "date must be YYYY-MM-DD",
       "time must be HH:MM 24h", "restaurant closed on this date",
       "time outside opening hours" >>

\* Rule i rejects the normalized request p (rules 4, 7 and 8 read the
\* restaurant's configuration, which rule 1 guarantees)
RuleFails(i, p) ==
    CASE i = 1 -> p.restaurant_id \notin DOMAIN RESTAURANTS
      [] i = 2 -> p.name = ""
      [] i = 3 -> p.phone = ""
      [] i = 4 -> \/ p.people = None
                  \/ p.people \notin RESTAURANTS[p.restaurant_id].min_people ..
                                      RESTAURANTS[p.restaurant_id].max_people
      [] i = 5 -> ~is_valid_date(p.date)
      [] i = 6 -> ~is_valid_time(p.time)
      [] i = 7 -> p.date \in RESTAURANTS[p.restaurant_id].closed_days
      [] i = 8 -> ~within_opening(p.time,
                                  RESTAURANTS[p.restaurant_id].opening_hours)

\* The first rule, from rule i on, that rejects p; 0 when none does
RECURSIVE FirstFailing(_, _)
FirstFailing(i, p) ==
    IF i > Len(RuleReason) THEN 0
    ELSE IF RuleFails(i, p) THEN i
    ELSE FirstFailing(i + 1, p)

\* The first failing rule of every request the model sends, 0 when none fails
FailingRule == [d \in Requests |-> FirstFailing(1, Normalized[d])]

\* The requests that break both the party-size rule and the date-format rule
\* and no earlier rule
SizeAndDate ==
    {d \in Requests :
        /\ FailingRule[d] = 4
        /\ RuleFails(5, Normalized[d])}

\* C12: in every reachable state and for every request, create_reservation
\* rejects the request exactly when some rule fails, with the reason of the
\* first failing rule in the order above; a request that breaks the party-size
\* and the date-format rules is rejected with the party-size reason.
C12_ValidationOrder ==
    /\ SizeAndDate # {}
    /\ \A d \in Requests :
        LET out == create_reservation(RESERVATIONS, RES_INDEX, uuids, d, now).resp
            k == FailingRule[d]
        IN  /\ IF k = 0
               THEN out.ok /\ out.status \in {200, 201}
               ELSE ~out.ok /\ out.status = 400 /\ out.error = RuleReason[k]
            /\ d \in SizeAndDate => out.error = RuleReason[4]

\* A request has just been rejected for its party size while the store holds
\* records.
C12_Witness ==
    /\ resp.status = 400
    /\ resp.error = RuleReason[4]
    /\ Len_(RESERVATIONS) > 0

\* The records of the store that carry the dedup key <<rid, call_sid>>
RecordsOf(store, key) ==
    {id \in DOMAIN store :
        <<store[id].restaurant_id, store[id].call_sid>> = key}

\* The requests of the model that pass validation, with and without a call id
Keyed == {d \in Requests : Validation[d] = "" /\ Normalized[d].call_sid # ""}
Unkeyed == {d \in Requests : Validation[d] = "" /\ Normalized[d].call_sid = ""}

\* C2 as stated: when every thread has sent the same valid request with a
\* non-empty call id and every thread has answered, exactly one response is
\* 201 with a record not marked duplicate, every other response is 200 with a
\* record marked duplicate, and all responses carry one record identifier.
C2_ConcurrentIdempotentCreate ==
    \A d \in ConcRequests :
        ( /\ Validation[d] = ""
          /\ Normalized[d].call_sid # ""
          /\ \A t \in Threads : thr[t].pc = "done" /\ thr[t].data = d )
        => /\ \E t \in Threads :
                /\ thr[t].resp.status = 201
                /\ ~thr[t].resp.reservation[1].duplicate
                /\ \A u \in Threads \ {t} :
                    /\ thr[u].resp.status = 200
                    /\ thr[u].resp.reservation[1].duplicate
           /\ \A t, u \in Threads :
                thr[t].resp.reservation[1].id = thr[u].resp.reservation[1].id

\* C3 as stated: in every reachable state the store holds at most one record
\* for each pair (restaurant id, non-empty call id).
C3_SingleRecordPerKey ==
    \A id1, id2 \in DOMAIN RESERVATIONS :
        ( /\ RESERVATIONS[id1].call_sid # ""
          /\ RESERVATIONS[id1].call_sid = RESERVATIONS[id2].call_sid
          /\ RESERVATIONS[id1].restaurant_id = RESERVATIONS[id2].restaurant_id )
        => id1 = id2

\* C4: with requests handled one at a time, the first valid request for a
\* (restaurant id, non-empty call id) adds exactly one record and is answered 201
\* with a record not marked duplicate; every later valid request for that key
\* adds no record and is answered 200 with the first record's identifier and
\* duplicate=true.
C4_SequentialIdempotentUpsert ==
    [][\A d \in Keyed :
        LET key == KeyOf(Normalized[d])
            res == resp'.reservation[1]
        IN  Create(d) =>
            IF key \notin DOMAIN firstId
            THEN /\ resp'.status = 201
                 /\ res.duplicate = FALSE
                 /\ res.id \notin DOMAIN RESERVATIONS
                 /\ DOMAIN RESERVATIONS' = DOMAIN RESERVATIONS \cup {res.id}
                 /\ RecordsOf(RESERVATIONS', key) = {res.id}
            ELSE /\ resp'.status = 200
                 /\ res.duplicate = TRUE
                 /\ res.id = firstId[key]
                 /\ DOMAIN RESERVATIONS' = DOMAIN RESERVATIONS
                 /\ RecordsOf(RESERVATIONS', key) = {firstId[key]}]_vars

\* A later request for a key has just been answered with the first record,
\* while the store is full.
C4_Witness ==
    /\ resp.status = 200
    /\ resp.reservation[1].duplicate
    /\ resp.reservation[1].updated_at # None
    /\ resp.reservation[1].call_sid = "CA1"
    /\ <<1, "CA1">> \in DOMAIN firstId
    /\ resp.reservation[1].id = firstId[<<1, "CA1">>]
    /\ Len_(RESERVATIONS) = MaxRecords

\* C11: a creation request that fails a validation rule is answered 400 and
\* leaves the reservation store, the dedup index, the identifiers handed out
\* and the gate state as they were, also when the store holds a record for the
\* request's (restaurant id, call id).
C11_RejectedChangesNothing ==
    [][\A d \in MixedRequests :
        ( /\ FailingRule[d] # 0
          /\ Create(d) )
        => ( /\ resp'.status = 400
             /\ RESERVATIONS' = RESERVATIONS
             /\ RES_INDEX' = RES_INDEX
             /\ uuids' = uuids
             /\ ACTIVE' = ACTIVE )]_vars

\* A request has just been rejected while the store holds a record for call
\* CA1 and the gate holds slots.
C11_Witness ==
    /\ resp.status = 400
    /\ resp.error = RuleReason[7]
    /\ <<1, "CA1">> \in DOMAIN RES_INDEX
    /\ ACTIVE # EmptyDict

\* C20: whatever the gate holds, a creation request is rejected with the reason
\* of its first failing rule, or answered 200 with the first record of its
\* (restaurant id, non-empty call id) when an earlier request created one, or
\* answered 201 with a new record otherwise; and it leaves the gate state and
\* the last gate response as they were.
C20_GateAdvisory ==
    [][\A d \in MixedRequests :
        LET p == Normalized[d]
            k == FailingRule[d]
        IN  Create(d) =>
            /\ ACTIVE' = ACTIVE
            /\ last' = last
            /\ IF k # 0
               THEN resp' = Rejected(RuleReason[k])
               ELSE IF p.call_sid # "" /\ KeyOf(p) \in DOMAIN firstId
               THEN /\ resp'.status = 200
                    /\ resp'.reservation[1].id = firstId[KeyOf(p)]
               ELSE /\ resp'.status = 201
                    /\ resp'.reservation[1].id \notin DOMAIN RESERVATIONS]_vars

\* A reservation for call CA1 has just been created while restaurant 1's bucket
\* is full and CA1 holds no slot.
C20_Witness ==
    /\ resp.status = 201
    /\ resp.reservation[1].call_sid = "CA1"
    /\ Len_(BucketOf(ACTIVE, 1)) = MAX_PARALLEL_PER_RESTAURANT
    /\ "CA1" \notin DOMAIN BucketOf(ACTIVE, 1)

\* The fields of a record that a merge may set from the request
MergeFields == {"name", "phone", "date", "time", "people", "notes", "source", "tz"}

\* What the JSON body holds for a field, under either of its spellings
RawValue(data, f) ==
    CASE f = "name" -> Or(data.customer_name, data.name)
      [] f = "phone" -> Or(data.customer_phone, data.phone)
      [] f = "tz" -> Or(data.tz, data.timezone)
      [] OTHER -> data[f]

\* The request itself holds a non-empty, non-null value for the field
Supplies(data, f) == RawValue(data, f) # Absent /\ Strip(RawValue(data, f)) # ""

\* C15 as stated: in every reachable state, a valid request that hits the
\* record stored for its (restaurant id, non-empty call id) changes a field of
\* that record only if the request itself supplied a non-empty value for it,
\* and never changes the record's identifier, restaurant id or call id.
C15_MergeOnlySupplied ==
    \A d \in Keyed :
        IndexHit(Normalized[d], RES_INDEX) =>
            LET rid == RES_INDEX[KeyOf(Normalized[d])]
                old == RESERVATIONS[rid]
                new == create_reservation(RESERVATIONS, RES_INDEX, uuids,
                                          d, now).store[rid]
            IN  /\ new.id = old.id
                /\ new.restaurant_id = old.restaurant_id
                /\ new.call_sid = old.call_sid
                /\ \A f \in MergeFields :
                        new[f] # old[f] => Supplies(RequestData[d], f)

\* What the merge does: a field of the stored record changes only to the
\* non-empty value normalize_payload gives it, which for source and tz is a
\* default ("twilio", the restaurant's time zone) when the request supplied
\* none; the identifier, restaurant id and call id never change.
C15_MergeNormalized ==
    \A d \in Keyed :
        IndexHit(Normalized[d], RES_INDEX) =>
            LET rid == RES_INDEX[KeyOf(Normalized[d])]
                old == RESERVATIONS[rid]
                new == create_reservation(RESERVATIONS, RES_INDEX, uuids,
                                          d, now).store[rid]
            IN  /\ new.id = old.id
                /\ new.restaurant_id = old.restaurant_id
                /\ new.call_sid = old.call_sid
                /\ \A f \in MergeFields \ {"people"} :
                        new[f] = IF Normalized[d][f] # ""
                                 THEN Normalized[d][f] ELSE old[f]
                /\ new.people = Normalized[d].people

\* A merge has just answered with a record that carries notes and the default
\* source.
C15_Witness ==
    /\ resp.status = 200
    /\ resp.reservation[1].duplicate
    /\ resp.reservation[1].source = "twilio"
    /\ resp.reservation[1].notes = "window"

\* C10: with requests handled one at a time, every valid request whose call id
\* is absent or blank adds one record under a new identifier and is answered 201
\* with that record, not marked duplicate; it changes no other record and adds
\* nothing to the dedup index; no record without a call id is ever marked
\* duplicate or listed in the index.
C10_NoDedupWithoutCallSid ==
    [][/\ \A id \in DOMAIN RESERVATIONS' :
            RESERVATIONS'[id].call_sid = ""
            => /\ RESERVATIONS'[id].duplicate = FALSE
               /\ RESERVATIONS'[id].id = id
               /\ \A k \in DOMAIN RES_INDEX' : RES_INDEX'[k] # id
       /\ \A d \in Unkeyed :
            Create(d) =>
                /\ resp'.status = 201
                /\ resp'.reservation[1].duplicate = FALSE
                /\ resp'.reservation[1].call_sid = ""
                /\ resp'.reservation[1].id \notin DOMAIN RESERVATIONS
                /\ RESERVATIONS'[resp'.reservation[1].id] = resp'.reservation[1]
                /\ Len_(RESERVATIONS') = Len_(RESERVATIONS) + 1
                /\ \A id \in DOMAIN RESERVATIONS :
                        RESERVATIONS'[id] = RESERVATIONS[id]
                /\ RES_INDEX' = RES_INDEX]_vars

\* Two requests without a call id have left two records, none marked duplicate.
C10_Witness ==
    /\ Cardinality(RecordsOf(RESERVATIONS, <<1, "">>)) = MaxRecords
    /\ resp.status = 201
    /\ resp.reservation[1].call_sid = ""
    /\ RES_INDEX = EmptyDict

----------------------------------------------------------------------------
\* C14: with Acquire and Release calls for one restaurant running on
\* concurrent threads, the shared bucket of the restaurant never holds more
\* than MAX_PARALLEL_PER_RESTAURANT entries, and never more than
\* MAX_PARALLEL_PER_RESTAURANT callers have been told allowed=true without
\* having released since (no entry expires in SpecGateConc).
C14_GateAtomicity ==
    /\ Len_(SharedBucket) <= MAX_PARALLEL_PER_RESTAURANT
    /\ Cardinality(admitted) <= MAX_PARALLEL_PER_RESTAURANT

\* Two threads have both passed the capacity test for different new call ids
\* while the shared bucket had one free slot.
C14_Witness ==
    /\ Len_(SharedBucket) = MAX_PARALLEL_PER_RESTAURANT - 1
    /\ \E t, u \in Threads :
            /\ gthr[t].pc = "insert" /\ gthr[u].pc = "insert"
            /\ gthr[t].call_sid # gthr[u].call_sid
            /\ gthr[t].bucket = ACTIVE_ref[1] /\ gthr[u].bucket = ACTIVE_ref[1]

\* C19: when an Acquire answers allowed=true and no Release of the same call
\* id ran during it, the call id is in the restaurant's bucket of the shared
\* gate state at the moment of the answer.
C19_AdmittedIsRecorded ==
    [][\A t \in Threads :
            (AcquireReply(t) /\ gthr[t].allowed /\ ~gthr[t].raced)
                => gthr[t].call_sid \in DOMAIN SharedBucket']_vars

\* A thread is about to answer allowed=true, no Release of its call id ran
\* during the call, and the bucket it wrote is no longer the one ACTIVE holds.
C19_Witness ==
    \E t \in Threads :
        /\ gthr[t].pc = "acquire_reply" /\ gthr[t].allowed /\ ~gthr[t].raced
        /\ gthr[t].call_sid \in DOMAIN Obj(heap, gthr[t].bucket)
        /\ (1 \notin DOMAIN ACTIVE_ref \/ ACTIVE_ref[1] # gthr[t].bucket)

====
